---- MODULE Spec2Model ----
(***************************************************************************)
(* Job Application Analyzer: the Gemini HTTP handler with its adapter      *)
(* (src/api/analyze.py) and the Streamlit form with the OpenRouter adapter *)
(* (src/app.py).                                                           *)
(*                                                                         *)
(* Python values are modelled as follows.  None is the string NoneValue,   *)
(* a key absent from a dict is the string Missing, a str is a TLA+ string, *)
(* a list is a sequence.  An exception is a record naming its class; the   *)
(* class hierarchy is Ancestors, and a try statement picks the first       *)
(* except clause whose class is an ancestor of the raised class.           *)
(***************************************************************************)
EXTENDS Naturals, Sequences, FiniteSets, TLC

VARIABLES
    env_key,        \* os.environ["GEMINI_API_KEY"] of the handler's process
    json_error,     \* class response.json() raises in the installed requests
    request,        \* the POST being served by handler.do_POST
    pc,             \* "idle", "calling" (blocked in requests.post), "done"
    provider_calls, \* the requests.post calls made for the current POST
    provider_outcome, \* how the last requests.post ended
    adapter,        \* how analyze_job_application ended for the current POST
    response,       \* what do_POST wrote: status and JSON body
    or_pc,          \* app.py adapter: "idle", "calling" (blocked in create), "done"
    or_args,        \* app.py adapter: the model and api_key it was called with
    or_calls,       \* app.py adapter: the chat.completions.create calls made
    or_outcome,     \* app.py adapter: how chat.completions.create ended
    or_result,      \* app.py adapter: the value analyze_job_application returned
    dotenv_key,     \* app.py: OPENROUTER_API_KEY as configured at startup
    os_environ,     \* app.py: os.environ["OPENROUTER_API_KEY"], process-wide
    widget,         \* app.py: per session, the sidebar text_input's value
    typed,          \* app.py: per session, whether its user has typed a key
    last_run        \* app.py: the last script run of main and what it did

vars == <<env_key, json_error, request, pc, provider_calls, provider_outcome,
          adapter, response, or_pc, or_args, or_calls, or_outcome, or_result,
          dotenv_key, os_environ, widget, typed, last_run>>

gemini_vars ==
    <<env_key, json_error, request, pc, provider_calls, provider_outcome, adapter, response>>
openrouter_vars == <<or_pc, or_args, or_calls, or_outcome, or_result>>
form_vars == <<dotenv_key, os_environ, widget, typed, last_run>>
app_vars == <<openrouter_vars, form_vars>>

(***************************************************************************)
(* Bounds.                                                                 *)
(***************************************************************************)
MaxCandidates == 1
MaxParts == 1
MaxFragments == 2
MaxChoices == 1
NumSessions == 2

(***************************************************************************)
(* Python values.                                                          *)
(***************************************************************************)
NoneValue == "<None>"
Missing == "<missing>"

\* bool(v) for the values the code tests with "not v"
Truthy(v) == v \notin {NoneValue, ""}

\* dict.get(k, default)
DictGet(d, k, default) == IF d[k] = Missing THEN default ELSE d[k]

SeqsUpTo(S, n) == UNION {[1..k -> S] : k \in 0..n}

(***************************************************************************)
(* Exception classes: each class with its base classes (itself included). *)
(***************************************************************************)
Ancestors(cls) ==
    CASE cls = "HTTPError" -> {"HTTPError", "RequestException", "Exception"}
      [] cls = "ReadTimeout" -> {"ReadTimeout", "Timeout", "RequestException", "Exception"}
      [] cls = "ConnectTimeout" ->
            {"ConnectTimeout", "ConnectionError", "Timeout", "RequestException", "Exception"}
      [] cls = "ConnectionError" -> {"ConnectionError", "RequestException", "Exception"}
      [] cls = "requests.JSONDecodeError" ->
            {"requests.JSONDecodeError", "json.JSONDecodeError", "ValueError",
             "RequestException", "Exception"}
      [] cls = "json.JSONDecodeError" -> {"json.JSONDecodeError", "ValueError", "Exception"}
      [] cls = "UnicodeDecodeError" -> {"UnicodeDecodeError", "ValueError", "Exception"}
      [] OTHER -> {cls, "Exception"}

\* The index of the first except clause that catches cls, 0 when none does.
FirstMatch(clauses, cls) ==
    IF \E i \in 1..Len(clauses) : clauses[i] \in Ancestors(cls)
    THEN CHOOSE i \in 1..Len(clauses) :
            /\ clauses[i] \in Ancestors(cls)
            /\ \A j \in 1..(i - 1) : clauses[j] \notin Ancestors(cls)
    ELSE 0

\* A raised exception: its class, str(e), and for a requests exception
\* whether e.response is a response and that response's status code.
Raise(cls, text, hasResponse, status) ==
    [tag |-> "raise", exc |-> cls, text |-> text,
     hasResponse |-> hasResponse, status |-> status]

\* How a call ended: a returned mapping with one key, or an escaped exception.
\* text is the message's literal part, model and detail what it interpolates.
Return(key, text, model, detail) ==
    [tag |-> "return", key |-> key, text |-> text, model |-> model,
     detail |-> detail, exc |-> ""]

Escaped(cls) ==
    [tag |-> "raise", key |-> "", text |-> "", model |-> "", detail |-> "", exc |-> cls]

NoResult ==
    [tag |-> "none", key |-> "", text |-> "", model |-> "", detail |-> "", exc |-> ""]

(***************************************************************************)
(* src/api/analyze.py: the Gemini adapter.                                 *)
(***************************************************************************)
MsgKeyNotConfigured == "Gemini API key not configured."
MsgEmptyCandidates == "Received empty response from Gemini API. Please try again."
MsgUnexpectedFormat == "Unexpected response format from Gemini API. Please try again."
MsgEmptyText == "Received empty response from the model. Please try again."
MsgRateLimit == "**Rate Limit Reached**: You've exceeded the API rate limit."
MsgAuth == "**Authentication Error**: Invalid API key."
MsgModelNotAvailable == "**Model Not Available**: The model '{model}' is not available"
MsgApiError == "**API Error** (Status {status_code}): {error_msg}"
MsgTimeout == "Error: Request timed out. The API took too long to respond."
MsgNetwork == "Error: Network error occurred. {str(e)}"
MsgGeneric == "Error: {error_msg} Tips: Check that your Gemini API key is valid"

get_gemini_model(api_key, model_name) == model_name

\* What the provider can answer to requests.post.  A response carries a
\* status and a body; the body is not JSON, or a JSON object that may hold
\* "candidates", each candidate may hold "content" and that may hold "parts",
\* each part may hold "text".
Texts == {"", "## APPLICATION RECOMMENDATION"}

PartValues == [hasText : BOOLEAN, text : Texts]

Parts == {p \in PartValues : ~p.hasText => p.text = ""}

CandidateValues ==
    [hasContent : BOOLEAN, hasParts : BOOLEAN, parts : SeqsUpTo(Parts, MaxParts)]

Candidates ==
    {c \in CandidateValues :
        /\ ~c.hasContent => ~c.hasParts
        /\ ~c.hasParts => c.parts = <<>>}

BodyValues ==
    [isJson : BOOLEAN, hasCandidates : BOOLEAN,
     candidates : SeqsUpTo(Candidates, MaxCandidates)]

Bodies ==
    {b \in BodyValues :
        /\ ~b.isJson => ~b.hasCandidates
        /\ ~b.hasCandidates => b.candidates = <<>>}

NoBody == [isJson |-> FALSE, hasCandidates |-> FALSE, candidates |-> <<>>]

OkStatuses == {200}
ErrorStatuses == {400, 401, 403, 404, 429, 500, 503}

Outcomes ==
    [kind : {"response"}, status : OkStatuses, body : Bodies]
    \cup [kind : {"response"}, status : ErrorStatuses, body : {NoBody}]
    \cup [kind : {"http_error_no_response", "read_timeout", "connect_timeout",
                  "connection_error"},
          status : {0}, body : {NoBody}]

NoOutcome == [kind |-> "none", status |-> 0, body |-> NoBody]

\* Response.raise_for_status (line 109): HTTPError(response=self) for 4xx, 5xx
RaisesForStatus(status) == status >= 400 /\ status < 600

\* Lines 113-124: the three checks on the parsed result
ExtractText(result, model) ==
    IF ~result.hasCandidates \/ result.candidates = <<>>
    THEN Return("error", MsgEmptyCandidates, "", "")
    ELSE LET first == result.candidates[1] IN
         IF ~first.hasContent \/ ~first.hasParts
         THEN Return("error", MsgUnexpectedFormat, "", "")
         ELSE IF first.parts = <<>>
         THEN Raise("IndexError", "list index out of range", FALSE, 0)
         ELSE IF ~first.parts[1].hasText
         THEN Raise("KeyError", "'text'", FALSE, 0)
         ELSE IF ~Truthy(first.parts[1].text)
         THEN Return("error", MsgEmptyText, "", "")
         ELSE Return("analysis", first.parts[1].text, "", "")

\* Lines 79-124: the try body, from requests.post's outcome on
TryBody(outcome, model, jsonErrorClass) ==
    CASE outcome.kind = "read_timeout" ->
            Raise("ReadTimeout", "Read timed out.", FALSE, 0)
      [] outcome.kind = "connect_timeout" ->
            Raise("ConnectTimeout", "Connection timed out.", FALSE, 0)
      [] outcome.kind = "connection_error" ->
            Raise("ConnectionError", "Connection refused", FALSE, 0)
      [] outcome.kind = "http_error_no_response" ->
            Raise("HTTPError", "HTTP error", FALSE, 0)
      [] OTHER ->
            IF RaisesForStatus(outcome.status)
            THEN Raise("HTTPError", "Error for url", TRUE, outcome.status)
            ELSE IF ~outcome.body.isJson
            THEN Raise(jsonErrorClass, "Expecting value", FALSE, 0)
            ELSE ExtractText(outcome.body, model)

\* Mutant: the RequestException clause moved above the Timeout clause
GeminiExceptClausesReordered == <<"HTTPError", "RequestException", "Timeout", "Exception">>

\* Lines 125, 137, 139, 141: the except clauses in source order
GeminiExceptClauses == <<"HTTPError", "Timeout", "RequestException", "Exception">>

\* Line 127: RequestException.__init__ always sets self.response, so the
\* hasattr test is true of every HTTPError and e.response may be None.
HasAttrResponse(e) == TRUE

\* Lines 126-136: the HTTPError clause
HandleHTTPError(e, model) ==
    IF HasAttrResponse(e) /\ ~e.hasResponse
    THEN Escaped("AttributeError")
    ELSE IF ~HasAttrResponse(e)
    THEN Return("error", MsgApiError, "", e.text)
    ELSE IF e.status = 429 THEN Return("error", MsgRateLimit, "", "")
    ELSE IF e.status = 401 \/ e.status = 403 THEN Return("error", MsgAuth, "", "")
    ELSE IF e.status = 404 THEN Return("error", MsgModelNotAvailable, model, e.text)
    ELSE Return("error", MsgApiError, "", e.text)

\* Lines 125-143: the clause that catches e, run
GeminiExcept(e, model) ==
    LET i == FirstMatch(GeminiExceptClauses, e.exc) IN
    CASE i = 1 -> HandleHTTPError(e, model)
      [] i = 2 -> Return("error", MsgTimeout, "", "")
      [] i = 3 -> Return("error", MsgNetwork, "", e.text)
      [] i = 4 -> Return("error", MsgGeneric, "", e.text)
      [] OTHER -> Escaped(e.exc)

\* Lines 79-143: analyze_job_application once requests.post has ended
analyze_after_post(outcome, model, jsonErrorClass) ==
    LET r == TryBody(outcome, model, jsonErrorClass) IN
    IF r.tag = "raise" THEN GeminiExcept(r, model) ELSE r

(***************************************************************************)
(* src/api/analyze.py: handler.do_POST.                                    *)
(***************************************************************************)
MsgProvideBoth == "Please provide both job posting and resume."
MsgHandlerNoKey ==
    "Gemini API key is not configured. Please set GEMINI_API_KEY environment variable."
MsgInvalidJson == "Invalid JSON in request body"
MsgInternal == "Internal server error: {str(e)}"

\* The bodies a client can post.  "object" is a JSON object; "non_object" is
\* another JSON value (a list, null); "syntax_error" is UTF-8 text that is
\* not JSON; "bad_utf8" is bytes that are not UTF-8.
ObjectKinds == {"object"}

PostingValues == {Missing, "", "Senior Backend Engineer, 5 years Go"}
ResumeValues == {Missing, "", "3 years Python, no Go"}
ModelValues == {Missing, "gemini-1.5-pro"}
BodyKeyValues == {Missing, "body-key"}

Requests ==
    [kind : ObjectKinds, job_posting : PostingValues, resume : ResumeValues,
     model : ModelValues, api_key : BodyKeyValues]
    \cup [kind : {"non_object", "syntax_error", "bad_utf8"}, job_posting : {Missing},
          resume : {Missing}, model : {Missing}, api_key : {Missing}]

NoRequest ==
    [kind |-> "none", job_posting |-> Missing, resume |-> Missing,
     model |-> Missing, api_key |-> Missing]

\* The body is a JSON text
WellFormedJson(req) == req.kind \in {"object", "non_object"}

EnvKeyValues == {NoneValue, "", "env-key"}

Respond(status, body) ==
    [status |-> status,
     body |-> [key |-> body.key, text |-> body.text, model |-> body.model,
               detail |-> body.detail]]

NoResponse == Respond(0, NoResult)

\* Lines 160-162: int(Content-Length), rfile.read, decode('utf-8'), json.loads
LoadBody(req) ==
    CASE req.kind = "bad_utf8" ->
            Raise("UnicodeDecodeError", "'utf-8' codec can't decode byte", FALSE, 0)
      [] req.kind = "syntax_error" ->
            Raise("json.JSONDecodeError", "Expecting value", FALSE, 0)
      [] OTHER -> [tag |-> "value", value |-> req]

\* Mutant: the body's api_key preferred to the environment's
handler_api_key_from_body(body_data, envKey) ==
    IF Truthy(DictGet(body_data, "api_key", "")) THEN body_data.api_key ELSE envKey

\* Line 167: the credential do_POST hands to the adapter
handler_api_key(body_data, envKey) == envKey

\* Mutant: the credential check moved above the input check
CheckInputsCredentialFirst(body_data, envKey) ==
    IF body_data.kind \notin ObjectKinds
    THEN Raise("AttributeError", "object has no attribute 'get'", FALSE, 0)
    ELSE LET job_posting == DictGet(body_data, "job_posting", "")
             resume == DictGet(body_data, "resume", "")
             model == DictGet(body_data, "model", "gemini-pro")
             api_key == handler_api_key(body_data, envKey)
         IN  IF ~Truthy(api_key)
             THEN [tag |-> "respond", response |-> Respond(500, Return("error", MsgHandlerNoKey, "", ""))]
             ELSE IF ~Truthy(job_posting) \/ ~Truthy(resume)
             THEN [tag |-> "respond", response |-> Respond(400, Return("error", MsgProvideBoth, "", ""))]
             ELSE [tag |-> "analyze", model |-> model, api_key |-> api_key]

\* Lines 164-185: what do_POST does with the parsed body, up to the call
\* of analyze_job_application
CheckInputs(body_data, envKey) ==
    IF body_data.kind \notin ObjectKinds
    THEN Raise("AttributeError", "object has no attribute 'get'", FALSE, 0)
    ELSE LET job_posting == DictGet(body_data, "job_posting", "")
             resume == DictGet(body_data, "resume", "")
             model == DictGet(body_data, "model", "gemini-pro")
             api_key == handler_api_key(body_data, envKey)
         IN  IF ~Truthy(job_posting) \/ ~Truthy(resume)
             THEN [tag |-> "respond", response |-> Respond(400, Return("error", MsgProvideBoth, "", ""))]
             ELSE IF ~Truthy(api_key)
             THEN [tag |-> "respond", response |-> Respond(500, Return("error", MsgHandlerNoKey, "", ""))]
             ELSE [tag |-> "analyze", model |-> model, api_key |-> api_key]

\* Lines 194, 200: do_POST's except clauses in source order
HandlerExceptClauses == <<"json.JSONDecodeError", "Exception">>

\* Lines 194-205
HandlerExcept(e) ==
    LET i == FirstMatch(HandlerExceptClauses, e.exc) IN
    IF i = 1
    THEN Respond(400, Return("error", MsgInvalidJson, "", ""))
    ELSE Respond(500, Return("error", MsgInternal, "", e.text))

\* Lines 159-185: do_POST up to the point where it answers or calls the adapter
BeforeCall(req, envKey) ==
    LET loaded == LoadBody(req) IN
    IF loaded.tag = "raise"
    THEN [tag |-> "respond", response |-> HandlerExcept(loaded)]
    ELSE LET checked == CheckInputs(loaded.value, envKey) IN
         IF checked.tag = "raise"
         THEN [tag |-> "respond", response |-> HandlerExcept(checked)]
         ELSE checked

\* Mutant: the status no longer depends on the result's key
AfterCallAlways200(result) ==
    IF result.tag = "raise"
    THEN HandlerExcept([exc |-> result.exc, text |-> "'NoneType' object has no attribute 'status_code'"])
    ELSE Respond(200, result)

\* Lines 185-192 and 200-205: do_POST once analyze_job_application has ended
AfterCall(result) ==
    IF result.tag = "raise"
    THEN HandlerExcept([exc |-> result.exc, text |-> "'NoneType' object has no attribute 'status_code'"])
    ELSE Respond(IF result.key = "error" THEN 400 ELSE 200, result)

(***************************************************************************)
(* src/app.py: the OpenRouter adapter.                                     *)
(***************************************************************************)
MsgOrNoKey == "Error: OpenRouter API key not configured. Please set it in the sidebar or .env file."
MsgOrEmpty == "Error: Received empty response from the model."
MsgOrRateLimit == "**Rate Limit Reached**: Free models have usage limits"
MsgOrModelNotAvailable ==
    "**Model Not Available**: The model '{model.split(':')[0]}' is not currently available."
MsgOrTimeout == "Error: Request timed out. Free models may be slow or overloaded."
MsgOrGeneric == "Error: {error_msg} Tips: Enable 'Model Training'"

\* Lines 183-197: model_options, in the order of the dict
model_options ==
    << [label |-> "Meta Llama 3.1 8B (Free)", value |-> "meta-llama/llama-3.1-8b-instruct:free"],
       [label |-> "Meta Llama 3.2 3B (Free)", value |-> "meta-llama/llama-3.2-3b-instruct:free"],
       [label |-> "Mistral 7B (Free)", value |-> "mistralai/mistral-7b-instruct:free"],
       [label |-> "Google Gemma 2B (Free)", value |-> "google/gemma-2b-it:free"],
       [label |-> "Qwen 2.5 7B (Free)", value |-> "qwen/qwen-2.5-7b-instruct:free"],
       [label |-> "--- Paid Models (More Reliable) ---", value |-> "---"],
       [label |-> "Meta Llama 3.1 70B", value |-> "meta-llama/llama-3.1-70b-instruct"],
       [label |-> "Meta Llama 3.1 8B (Paid)", value |-> "meta-llama/llama-3.1-8b-instruct"],
       [label |-> "Mistral Large", value |-> "mistralai/mistral-large"],
       [label |-> "Mistral 7B (Paid)", value |-> "mistralai/mistral-7b-instruct"],
       [label |-> "Anthropic Claude 3.5 Sonnet", value |-> "anthropic/claude-3.5-sonnet"],
       [label |-> "Anthropic Claude 3 Opus", value |-> "anthropic/claude-3-opus"],
       [label |-> "Google Gemini Pro", value |-> "google/gemini-pro"] >>

\* model.split(':')[0] (line 142) for the model ids of model_options
SplitColon(model) ==
    CASE model = "meta-llama/llama-3.1-8b-instruct:free" -> "meta-llama/llama-3.1-8b-instruct"
      [] model = "meta-llama/llama-3.2-3b-instruct:free" -> "meta-llama/llama-3.2-3b-instruct"
      [] model = "mistralai/mistral-7b-instruct:free" -> "mistralai/mistral-7b-instruct"
      [] model = "google/gemma-2b-it:free" -> "google/gemma-2b-it"
      [] model = "qwen/qwen-2.5-7b-instruct:free" -> "qwen/qwen-2.5-7b-instruct"
      [] OTHER -> model

\* str(e) is a sequence of fragments, each one of the pieces of text below;
\* the text between fragments matches no rule.  A pattern occurs in a text
\* when one of its fragments is the pattern.
Fragments ==
    {"rate limit", "Rate Limit", "429", "404", "no endpoints found", "No endpoints found",
     "model_not_found", "timeout", "Timeout", "Request timed out."}

ErrorTexts == SeqsUpTo(Fragments, MaxFragments)

\* str.lower() of a fragment
LowerFragment(f) ==
    CASE f = "Rate Limit" -> "rate limit"
      [] f = "No endpoints found" -> "no endpoints found"
      [] f = "Timeout" -> "timeout"
      [] f = "Request timed out." -> "request timed out."
      [] OTHER -> f

\* error_msg.lower()
Lower(error_msg) == [i \in DOMAIN error_msg |-> LowerFragment(error_msg[i])]

\* pattern in error_msg
In(pattern, error_msg) == \E i \in DOMAIN error_msg : error_msg[i] = pattern

\* Mutant: the timeout rule tried first
ClassifyTimeoutFirst(error_msg, model) ==
    IF In("timeout", Lower(error_msg))
    THEN Return("str", MsgOrTimeout, "", error_msg)
    ELSE IF In("rate limit", Lower(error_msg)) \/ In("429", error_msg)
    THEN Return("str", MsgOrRateLimit, "", <<>>)
    ELSE IF \/ In("404", error_msg)
            \/ In("no endpoints found", Lower(error_msg))
            \/ In("model_not_found", Lower(error_msg))
    THEN Return("str", MsgOrModelNotAvailable, SplitColon(model), error_msg)
    ELSE Return("str", MsgOrGeneric, "", error_msg)

\* Lines 136-146: the except clause's if/elif chain
Classify(error_msg, model) ==
    IF In("rate limit", Lower(error_msg)) \/ In("429", error_msg)
    THEN Return("str", MsgOrRateLimit, "", <<>>)
    ELSE IF \/ In("404", error_msg)
            \/ In("no endpoints found", Lower(error_msg))
            \/ In("model_not_found", Lower(error_msg))
    THEN Return("str", MsgOrModelNotAvailable, SplitColon(model), error_msg)
    ELSE IF In("timeout", Lower(error_msg))
    THEN Return("str", MsgOrTimeout, "", error_msg)
    ELSE Return("str", MsgOrGeneric, "", error_msg)

\* What chat.completions.create can do: raise an error with a text, or
\* return a response whose choices hold message contents.
Contents == {NoneValue, "", "## APPLICATION RECOMMENDATION"}

OrOutcomes ==
    [kind : {"raise"}, text : ErrorTexts, choices : {<<>>}]
    \cup [kind : {"response"}, text : {<<>>}, choices : SeqsUpTo(Contents, MaxChoices)]

NoOrOutcome == [kind |-> "none", text |-> <<>>, choices |-> <<>>]

\* Lines 41-58
get_openrouter_client(api_key) == IF ~Truthy(api_key) THEN NoneValue ELSE "OpenAI"

\* Lines 117-146: analyze_job_application once chat.completions.create has ended
openrouter_after_create(outcome, model) ==
    IF outcome.kind = "raise"
    THEN Classify(outcome.text, model)
    ELSE IF outcome.choices = <<>> \/ ~Truthy(outcome.choices[1])
    THEN Return("str", MsgOrEmpty, "", <<>>)
    ELSE Return("str", outcome.choices[1], "", <<>>)

NoOrResult == [tag |-> "none", key |-> "", text |-> "", model |-> "", detail |-> <<>>, exc |-> ""]

OrModels == {"meta-llama/llama-3.1-8b-instruct:free", "meta-llama/llama-3.1-70b-instruct"}
OrKeys == {NoneValue, "", "sk-or-key"}

NoArgs == [model |-> "", api_key |-> NoneValue]

OpenRouterIdle ==
    /\ or_pc = "idle"
    /\ or_args = NoArgs
    /\ or_calls = 0
    /\ or_outcome = NoOrOutcome
    /\ or_result = NoOrResult

\* Lines 60-66 and 120-129: analyze_job_application is called and returns at
\* once without a client, or blocks in chat.completions.create.
analyze_job_application(model, api_key) ==
    /\ or_pc = "idle"
    /\ or_args' = [model |-> model, api_key |-> api_key]
    /\ IF get_openrouter_client(api_key) = NoneValue
       THEN /\ or_result' = Return("str", MsgOrNoKey, "", <<>>)
            /\ or_pc' = "done"
            /\ UNCHANGED or_calls
       ELSE /\ or_calls' = or_calls + 1
            /\ or_pc' = "calling"
            /\ UNCHANGED or_result
    /\ UNCHANGED or_outcome
    /\ UNCHANGED <<gemini_vars, form_vars>>

\* chat.completions.create ends and analyze_job_application returns.
OpenRouterAnswers(outcome) ==
    /\ or_pc = "calling"
    /\ or_outcome' = outcome
    /\ or_result' = openrouter_after_create(outcome, or_args.model)
    /\ or_pc' = "done"
    /\ UNCHANGED <<or_args, or_calls>>
    /\ UNCHANGED <<gemini_vars, form_vars>>

\* The caller has the result; the next call can begin.
OpenRouterReturned ==
    /\ or_pc = "done"
    /\ or_pc' = "idle"
    /\ or_args' = NoArgs
    /\ or_calls' = 0
    /\ or_outcome' = NoOrOutcome
    /\ or_result' = NoOrResult
    /\ UNCHANGED <<gemini_vars, form_vars>>

(***************************************************************************)
(* src/app.py: main, the Streamlit script.  Streamlit serves every browser *)
(* session from one process and runs main once when a session opens and    *)
(* once more after each interaction; os.environ belongs to the process.    *)
(***************************************************************************)
Sessions == 1..NumSessions

\* The key the user of session s has and may type in the sidebar
UserKey(s) ==
    CASE s = 1 -> "sk-or-user-1"
      [] s = 2 -> "sk-or-user-2"
      [] OTHER -> "sk-or-user-3"

StartupKeys == {"", "sk-or-startup"}

\* The text_input of a session that has not run main yet
Unset == "<unset>"

\* Line 202: index=6 of the option list (counted from 0)
DefaultSelection == 7

\* The entries the model's user picks: a free model, the separator, the default
Selections == {1, 6, DefaultSelection}

FormPostings == {"", "Senior Backend Engineer, 5 years Go"}
FormResumes == {"", "3 years Python, no Go"}

\* The provider's answers to a dispatched analysis
FormOutcomes ==
    {[kind |-> "response", text |-> <<>>, choices |-> <<"## APPLICATION RECOMMENDATION">>],
     [kind |-> "response", text |-> <<>>, choices |-> <<>>],
     [kind |-> "raise", text |-> <<"429">>, choices |-> <<>>]}

MsgFormInputs == "Please provide both job posting and resume to analyze."
MsgFormKey == "Please provide your OpenRouter API key in the sidebar."
MsgFormModel == "Please select a valid model from the dropdown."

\* Lines 166-171: st.text_input returns the session's value, which on the
\* session's first run is value=os.getenv("OPENROUTER_API_KEY", "")
text_input(widget_value, environ) ==
    IF widget_value = Unset THEN environ ELSE widget_value

\* Lines 173-174: os.environ after the sidebar's assignment
SetEnviron(api_key_input, environ) ==
    IF Truthy(api_key_input) THEN api_key_input ELSE environ

\* Lines 205-209: the selected model after the separator's fallback
SelectedModel(selection) ==
    LET selected_model == model_options[selection].value IN
    IF selected_model = "---"
    THEN "meta-llama/llama-3.1-70b-instruct"
    ELSE selected_model

\* Lines 248-274: what the run shows, and the call it dispatches
Results(job_posting, resume, api_key_input, selected_model, analyze_button, outcome) ==
    IF ~analyze_button
    THEN [shown |-> "form", model |-> "", api_key |-> "", result |-> ""]
    ELSE IF ~Truthy(job_posting) \/ ~Truthy(resume)
    THEN [shown |-> "error", model |-> "", api_key |-> "", result |-> MsgFormInputs]
    ELSE IF ~Truthy(api_key_input)
    THEN [shown |-> "error", model |-> "", api_key |-> "", result |-> MsgFormKey]
    ELSE IF selected_model = "---"
    THEN [shown |-> "error", model |-> "", api_key |-> "", result |-> MsgFormModel]
    ELSE [shown |-> "analysis", model |-> selected_model, api_key |-> api_key_input,
          result |-> openrouter_after_create(outcome, selected_model).text]

RunRecord(s, selection, analyze_button, results) ==
    [session |-> s, separator |-> model_options[selection].value = "---",
     pressed |-> analyze_button, shown |-> results.shown, model |-> results.model,
     api_key |-> results.api_key, result |-> results.result]

NoRun ==
    [session |-> 0, separator |-> FALSE, pressed |-> FALSE, shown |-> "none",
     model |-> "", api_key |-> "", result |-> ""]

FormIdle ==
    /\ dotenv_key = ""
    /\ os_environ = ""
    /\ widget = [s \in Sessions |-> Unset]
    /\ typed = [s \in Sessions |-> FALSE]
    /\ last_run = NoRun

\* Line 7 (load_dotenv) and the process environment: the startup credential
FormInit ==
    /\ dotenv_key \in StartupKeys
    /\ os_environ = dotenv_key
    /\ widget = [s \in Sessions |-> Unset]
    /\ typed = [s \in Sessions |-> FALSE]
    /\ last_run = NoRun

\* A browser opens the page: the first run of main in session s, with every
\* widget at its default and the button not pressed.
OpenSession(s) ==
    /\ widget[s] = Unset
    /\ LET api_key_input == text_input(widget[s], os_environ)
           selected_model == SelectedModel(DefaultSelection)
           results == Results("", "", api_key_input, selected_model, FALSE,
                              CHOOSE o \in FormOutcomes : TRUE)
       IN  /\ widget' = [widget EXCEPT ![s] = api_key_input]
           /\ os_environ' = SetEnviron(api_key_input, os_environ)
           /\ last_run' = RunRecord(s, DefaultSelection, FALSE, results)
    /\ UNCHANGED <<dotenv_key, typed>>
    /\ UNCHANGED <<gemini_vars, openrouter_vars>>

\* The user of session s interacts and main runs again: the key field is
\* kept, cleared or filled with the user's key; the other widgets hold
\* job_posting, resume and selection; the button may have been pressed.
Interact(s, edit, job_posting, resume, selection, analyze_button, outcome) ==
    /\ widget[s] # Unset
    /\ LET value == CASE edit = "type" -> UserKey(s)
                      [] edit = "clear" -> ""
                      [] OTHER -> widget[s]
           api_key_input == text_input(value, os_environ)
           selected_model == SelectedModel(selection)
           results == Results(job_posting, resume, api_key_input, selected_model,
                              analyze_button, outcome)
       IN  /\ widget' = [widget EXCEPT ![s] = api_key_input]
           /\ typed' = [typed EXCEPT ![s] = typed[s] \/ edit = "type"]
           /\ os_environ' = SetEnviron(api_key_input, os_environ)
           /\ last_run' = RunRecord(s, selection, analyze_button, results)
    /\ UNCHANGED dotenv_key
    /\ UNCHANGED <<gemini_vars, openrouter_vars>>

GeminiInit ==
    /\ env_key \in EnvKeyValues
    /\ json_error \in {"requests.JSONDecodeError", "json.JSONDecodeError"}
    /\ request = NoRequest
    /\ pc = "idle"
    /\ provider_calls = <<>>
    /\ provider_outcome = NoOutcome
    /\ adapter = NoResult
    /\ response = NoResponse

\* do_POST receives a request and runs until it has answered, or until
\* analyze_job_application blocks in requests.post (lines 25-26, 102-107).
do_POST(req) ==
    /\ pc = "idle"
    /\ request' = req
    /\ LET step == BeforeCall(req, env_key) IN
       IF step.tag = "respond"
       THEN /\ response' = step.response
            /\ pc' = "done"
            /\ UNCHANGED <<provider_calls, adapter>>
       ELSE IF ~Truthy(step.api_key)
       THEN /\ adapter' = Return("error", MsgKeyNotConfigured, "", "")
            /\ response' = AfterCall(adapter')
            /\ pc' = "done"
            /\ UNCHANGED provider_calls
       ELSE /\ provider_calls' =
                    Append(provider_calls,
                           [model |-> get_gemini_model(step.api_key, step.model),
                            key |-> step.api_key])
            /\ pc' = "calling"
            /\ UNCHANGED <<adapter, response>>
    /\ UNCHANGED <<env_key, json_error, provider_outcome>>
    /\ UNCHANGED app_vars

\* requests.post ends; the adapter returns or raises and do_POST answers.
ProviderAnswers(outcome) ==
    /\ pc = "calling"
    /\ provider_outcome' = outcome
    /\ adapter' = analyze_after_post(outcome, provider_calls[1].model, json_error)
    /\ response' = AfterCall(adapter')
    /\ pc' = "done"
    /\ UNCHANGED <<env_key, json_error, request, provider_calls>>
    /\ UNCHANGED app_vars

\* The server takes the next request: a handler instance per request.
NextRequest ==
    /\ pc = "done"
    /\ pc' = "idle"
    /\ request' = NoRequest
    /\ provider_calls' = <<>>
    /\ provider_outcome' = NoOutcome
    /\ adapter' = NoResult
    /\ response' = NoResponse
    /\ UNCHANGED <<env_key, json_error>>
    /\ UNCHANGED app_vars

Init == GeminiInit /\ OpenRouterIdle /\ FormIdle

Next ==
    \/ \E req \in Requests : do_POST(req)
    \/ \E outcome \in Outcomes : ProviderAnswers(outcome)
    \/ NextRequest

Spec == Init /\ [][Next]_vars

GeminiIdle ==
    /\ env_key = NoneValue
    /\ json_error = "requests.JSONDecodeError"
    /\ request = NoRequest
    /\ pc = "idle"
    /\ provider_calls = <<>>
    /\ provider_outcome = NoOutcome
    /\ adapter = NoResult
    /\ response = NoResponse

\* The OpenRouter adapter alone, called with any model and credential
InitOpenRouter == GeminiIdle /\ OpenRouterIdle /\ FormIdle

NextOpenRouter ==
    \/ \E model \in OrModels, api_key \in OrKeys : analyze_job_application(model, api_key)
    \/ \E outcome \in OrOutcomes : OpenRouterAnswers(outcome)
    \/ OpenRouterReturned

SpecOpenRouter == InitOpenRouter /\ [][NextOpenRouter]_vars

\* The form, served to NumSessions browser sessions by one process
InitForm == GeminiIdle /\ OpenRouterIdle /\ FormInit

NextForm ==
    \/ \E s \in Sessions : OpenSession(s)
    \/ \E s \in Sessions, edit \in {"keep", "type", "clear"},
          job_posting \in FormPostings, resume \in FormResumes,
          selection \in Selections, analyze_button \in BOOLEAN,
          outcome \in FormOutcomes :
            Interact(s, edit, job_posting, resume, selection, analyze_button, outcome)

SpecForm == InitForm /\ [][NextForm]_vars

(***************************************************************************)
(* Properties of the Gemini handler and adapter, checked under Spec.       *)
(***************************************************************************)
\* The request's two inputs as do_POST reads them
InputsGiven ==
    /\ request.kind \in ObjectKinds
    /\ Truthy(DictGet(request, "job_posting", ""))
    /\ Truthy(DictGet(request, "resume", ""))

InputsLacking ==
    /\ request.kind \in ObjectKinds
    /\ ~Truthy(DictGet(request, "job_posting", "")) \/ ~Truthy(DictGet(request, "resume", ""))

AdapterSuccess == adapter.tag = "return" /\ adapter.key = "analysis"
AdapterFailure == adapter.tag = "return" /\ adapter.key = "error"

\* The spec's ErrorCategory of a message the Gemini adapter returns
GeminiCategory(text) ==
    CASE text = MsgRateLimit -> "RateLimited"
      [] text \in {MsgAuth, MsgKeyNotConfigured} -> "AuthFailed"
      [] text = MsgModelNotAvailable -> "ModelUnavailable"
      [] text = MsgTimeout -> "Timeout"
      [] text = MsgNetwork -> "NetworkError"
      [] text \in {MsgEmptyCandidates, MsgUnexpectedFormat, MsgEmptyText} -> "EmptyResponse"
      [] OTHER -> "Unknown"

\* C1: a POST whose JSON object lacks job_posting or resume (missing or
\* empty) is answered 400 "Please provide both job posting and resume." and
\* neither the adapter nor the provider is called, whatever the credential.
C1_InputCheckFirst ==
    InputsLacking =>
        /\ provider_calls = <<>>
        /\ adapter = NoResult
        /\ pc = "done"
        /\ response = Respond(400, Return("error", MsgProvideBoth, "", ""))

C1_Witness ==
    /\ pc = "done"
    /\ request.kind = "object"
    /\ request.resume = ""
    /\ Truthy(request.job_posting)
    /\ ~Truthy(env_key)
    /\ response.status = 400

\* C2: analyze_job_application returns a failure value for every provider
\* outcome; no exception escapes it.
C2_NeverRaises == adapter.tag # "raise"

\* The first of the three validation stages a 2xx JSON body fails, 0 if none
FailedStage(body) ==
    IF ~body.hasCandidates \/ body.candidates = <<>> THEN 1
    ELSE IF ~body.candidates[1].hasContent \/ ~body.candidates[1].hasParts THEN 2
    ELSE IF body.candidates[1].parts = <<>> THEN 3
    ELSE IF ~body.candidates[1].parts[1].hasText THEN 3
    ELSE IF body.candidates[1].parts[1].text = "" THEN 3
    ELSE 0

StageMessage(stage) ==
    CASE stage = 1 -> MsgEmptyCandidates
      [] stage = 2 -> MsgUnexpectedFormat
      [] OTHER -> MsgEmptyText

ParsedResponse ==
    /\ pc = "done"
    /\ provider_outcome.kind = "response"
    /\ ~RaisesForStatus(provider_outcome.status)
    /\ provider_outcome.body.isJson

\* C3: a successful response that fails a validation stage (an empty parts
\* list and a first part without text included) yields an EmptyResponse
\* failure with that stage's message: never Success, never the generic
\* category, never an exception.
C3_StagesYieldEmptyResponse ==
    (ParsedResponse /\ FailedStage(provider_outcome.body) # 0) =>
        /\ AdapterFailure
        /\ GeminiCategory(adapter.text) = "EmptyResponse"
        /\ adapter.text = StageMessage(FailedStage(provider_outcome.body))

\* C5: an HTTP error is classified by its status code alone (429 rate limit,
\* 401 and 403 authentication, 404 model not available, any other status API
\* error), a timeout yields the timeout failure and another transport failure
\* the network failure, neither under an HTTP-status category.
C5_StatusClassification ==
    pc = "done" =>
        /\ (provider_outcome.kind = "response" /\ RaisesForStatus(provider_outcome.status)) =>
              /\ AdapterFailure
              /\ adapter.text =
                    (CASE provider_outcome.status = 429 -> MsgRateLimit
                       [] provider_outcome.status \in {401, 403} -> MsgAuth
                       [] provider_outcome.status = 404 -> MsgModelNotAvailable
                       [] OTHER -> MsgApiError)
        /\ provider_outcome.kind \in {"read_timeout", "connect_timeout"} =>
              /\ AdapterFailure
              /\ adapter.text = MsgTimeout
              /\ GeminiCategory(adapter.text) = "Timeout"
        /\ provider_outcome.kind = "connection_error" =>
              /\ AdapterFailure
              /\ adapter.text = MsgNetwork
              /\ GeminiCategory(adapter.text) = "NetworkError"

C5_Witness ==
    /\ pc = "done"
    /\ provider_outcome.kind = "connect_timeout"
    /\ adapter.text = MsgTimeout

\* C6: for a POST with both inputs and an available credential, the answer
\* is 200 with {"analysis": text} exactly when the adapter returned Success
\* and 400 with {"error": message} exactly when it returned a Failure, the
\* body being the adapter's result unchanged.
C6_PassThrough ==
    (pc = "done" /\ InputsGiven
        /\ (Truthy(env_key) \/ Truthy(DictGet(request, "api_key", "")))) =>
        /\ AdapterSuccess <=>
              /\ response.status = 200
              /\ response.body.key = "analysis"
        /\ AdapterFailure <=>
              /\ response.status = 400
              /\ response.body.key = "error"
        /\ adapter.tag = "return" => response.body = Respond(0, adapter).body

C6_Witness ==
    /\ pc = "done"
    /\ InputsGiven
    /\ AdapterSuccess
    /\ response.status = 200
    /\ response.body.text = "## APPLICATION RECOMMENDATION"

\* C7: a POST whose body is not well-formed JSON is answered 400 "Invalid
\* JSON in request body" and the provider is never invoked.
C7_MalformedJsonIs400 ==
    (request.kind # "none" /\ ~WellFormedJson(request)) =>
        /\ provider_calls = <<>>
        /\ pc = "done"
        /\ response = Respond(400, Return("error", MsgInvalidJson, "", ""))

RejectedForCredential ==
    /\ pc = "done"
    /\ response = Respond(500, Return("error", MsgHandlerNoKey, "", ""))
    /\ provider_calls = <<>>

\* C8 as claimed: a POST with both inputs is rejected for a missing
\* credential only when the body's api_key and the environment's credential
\* are both absent, and a body api_key without an environment credential is
\* dispatched to the provider with that key.
C8_BodyKeyAccepted ==
    InputsGiven =>
        /\ RejectedForCredential =>
              (~Truthy(DictGet(request, "api_key", "")) /\ ~Truthy(env_key))
        /\ (Truthy(DictGet(request, "api_key", "")) /\ ~Truthy(env_key)) =>
              /\ Len(provider_calls) = 1
              /\ provider_calls[1].key = request.api_key

\* C8 as amended: the credential is the environment's alone.  A POST with
\* both inputs is rejected for a missing credential (500, no provider call)
\* exactly when GEMINI_API_KEY is unset or empty, whether or not the body
\* holds api_key, and every provider call carries the environment's key.
C8_EnvironmentKeyOnly ==
    InputsGiven =>
        /\ RejectedForCredential <=> ~Truthy(env_key)
        /\ Truthy(env_key) =>
              /\ Len(provider_calls) = 1
              /\ provider_calls[1].key = env_key

C8_Witness ==
    /\ InputsGiven
    /\ Truthy(DictGet(request, "api_key", ""))
    /\ ~Truthy(env_key)
    /\ RejectedForCredential

\* The requests.post of the current POST ended in a failure: a timeout, a
\* connection failure or an HTTP error
CallFailed ==
    \/ provider_outcome.kind \in
          {"read_timeout", "connect_timeout", "connection_error", "http_error_no_response"}
    \/ provider_outcome.kind = "response" /\ RaisesForStatus(provider_outcome.status)

\* C11 (Gemini adapter): an invocation makes at most one provider call,
\* exactly one when its credential is non-empty, and after any failure of
\* that call, a timeout included, makes no second call and ends by
\* returning a Failure.
C11_OneCallThenFailure ==
    /\ Len(provider_calls) <= 1
    /\ \A i \in DOMAIN provider_calls : Truthy(provider_calls[i].key)
    /\ (pc = "done" /\ adapter.tag # "none") =>
          (Len(provider_calls) = 1 <=> provider_outcome.kind # "none")
    /\ (pc = "done" /\ CallFailed) =>
          /\ Len(provider_calls) = 1
          /\ AdapterFailure

(***************************************************************************)
(* Properties of the OpenRouter adapter, checked under SpecOpenRouter.     *)
(***************************************************************************)
\* The spec's ErrorCategory of a message the OpenRouter adapter returns
OpenRouterCategory(text) ==
    CASE text = MsgOrRateLimit -> "RateLimited"
      [] text = MsgOrModelNotAvailable -> "ModelUnavailable"
      [] text = MsgOrTimeout -> "Timeout"
      [] text = MsgOrEmpty -> "EmptyResponse"
      [] text = MsgOrGeneric -> "Unknown"
      [] OTHER -> "none"

\* The rules as claimed, each on the raised error's text
MatchesRateLimit(t) ==
    \E i \in DOMAIN t : LowerFragment(t[i]) = "rate limit" \/ t[i] = "429"

MatchesModelUnavailable(t) ==
    \E i \in DOMAIN t :
        \/ t[i] = "404"
        \/ LowerFragment(t[i]) \in {"no endpoints found", "model_not_found"}

MatchesTimeout(t) == \E i \in DOMAIN t : LowerFragment(t[i]) = "timeout"

\* C4: a raised error is classified by the first matching rule in the order
\* rate limit ("rate limit" in any case, or "429"), model unavailable ("404",
\* "no endpoints found", "model_not_found"), timeout ("timeout"), unknown; a
\* text matching several rules gets the category of the lowest-numbered one.
C4_FirstMatchWins ==
    (or_pc = "done" /\ or_outcome.kind = "raise") =>
        OpenRouterCategory(or_result.text) =
            (IF MatchesRateLimit(or_outcome.text) THEN "RateLimited"
             ELSE IF MatchesModelUnavailable(or_outcome.text) THEN "ModelUnavailable"
             ELSE IF MatchesTimeout(or_outcome.text) THEN "Timeout"
             ELSE "Unknown")

C4_Witness ==
    /\ or_pc = "done"
    /\ or_outcome.kind = "raise"
    /\ or_outcome.text = <<"Timeout", "429">>
    /\ or_result.text = MsgOrRateLimit

\* C11 (OpenRouter adapter): an invocation calls chat.completions.create
\* once when its credential is non-empty and never otherwise, and after a
\* raised error, a timeout included, returns a failure message with no
\* second call.
C11_OpenRouterOneCall ==
    /\ or_calls <= 1
    /\ or_pc \in {"calling", "done"} =>
          (or_calls = 1 <=> Truthy(or_args.api_key))
    /\ (or_pc = "done" /\ or_outcome.kind = "raise") =>
          /\ or_calls = 1
          /\ or_result.tag = "return"
          /\ OpenRouterCategory(or_result.text) \in
                {"RateLimited", "ModelUnavailable", "Timeout", "Unknown"}

(***************************************************************************)
(* Properties of the form, checked under SpecForm.                         *)
(***************************************************************************)
\* C9: when the separator entry is selected and the Analyze button pressed,
\* the run dispatches no analysis, with no model at all.
C9_SeparatorRejected ==
    (last_run.pressed /\ last_run.separator) => last_run.shown # "analysis"

\* The credentials session s may use: what its user typed, or the startup one
OwnCredentials(s) ==
    {"", dotenv_key} \cup (IF typed[s] THEN {UserKey(s)} ELSE {})

\* C10: the credential a session's key field holds, and the credential its
\* analysis is dispatched with, is one that session's user typed or the
\* startup configuration, never one typed in another session.
C10_CallersIndependent ==
    /\ \A s \in Sessions : widget[s] # Unset => widget[s] \in OwnCredentials(s)
    /\ last_run.shown = "analysis" => last_run.api_key \in OwnCredentials(last_run.session)

\* The messages the OpenRouter adapter returns for a Failure
OpenRouterFailureMessages ==
    {MsgOrNoKey, MsgOrEmpty, MsgOrRateLimit, MsgOrModelNotAvailable, MsgOrTimeout,
     MsgOrGeneric}

\* C12 (Gemini adapter): the returned mapping has exactly one of the keys
\* "analysis" and "error", and "analysis" only with a non-empty text.
C12_GeminiOneVariant ==
    adapter.tag = "return" =>
        /\ adapter.key \in {"analysis", "error"}
        /\ adapter.key = "analysis" => Truthy(adapter.text)
        /\ adapter.key = "analysis" =>
              /\ ParsedResponse
              /\ FailedStage(provider_outcome.body) = 0

\* C12: every value an adapter returns has exactly one variant populated.
\* The Gemini mapping has exactly one of the keys "analysis" and "error",
\* "analysis" only with a non-empty text; in the OpenRouter variant the
\* caller tells a Success from a Failure, so main never presents a Failure
\* message as the analysis.
C12_VariantsDistinguishable ==
    /\ C12_GeminiOneVariant
    /\ last_run.shown = "analysis" => last_run.result \notin OpenRouterFailureMessages

====
